---- MODULE Spec2Model ----
(***************************************************************************)
(* Model of the documentation crawler of cargo-copilot (src/src/main.rs   *)
(* and src/src/tools/*.rs): path normalisation, page parsing, the         *)
(* breadth-first crawl of extract_symbols and the crate_symbol_list       *)
(* request around it.                                                     *)
(*                                                                        *)
(* A string is a sequence of atoms.  The atom "/" is the path separator,  *)
(* the atom "." is a dot, every other atom is a run of one or more        *)
(* characters that are neither (a file or directory name, or a part of    *)
(* one).  Hrefs are URL paths, so no atom contains a backslash.           *)
(***************************************************************************)
EXTENDS Integers, Sequences, FiniteSets, TLC

VARIABLES
    \* the path normaliser on its own
    nstage,     \* which applications of the normaliser have been made
    nbase,      \* base_dir
    nhref,      \* href
    nkey,       \* result of the first application
    nkey2,      \* result of the second application
    \* one crate_symbol_list request
    fs,         \* the files on disk: path -> page markup
    pc,         \* position of the request
    queue,      \* extract_symbols: queue of (html, base_dir)
    symbols,    \* extract_symbols: symbols
    visited,    \* extract_symbols: visited
    modules,    \* extract_symbols: the module links of the current page
                \* that the for loop has not yet handled
    result,     \* what the request returned
    parsed,     \* history: the file of every page given to process_page
    fetched,    \* history: every read_doc_html_by_rel_path of the crawl
    \* process_page on its own
    pstage,     \* whether the page has been parsed
    phtml,      \* html
    pbase,      \* base_dir
    ppage,      \* what process_page returned
    \* requests served side by side
    reqs        \* request -> its arguments, locals, position and result

normvars == <<nstage, nbase, nhref, nkey, nkey2>>
crawlvars == <<fs, pc, queue, symbols, visited, modules, result, parsed, fetched>>
pagevars == <<pstage, phtml, pbase, ppage>>
vars == <<nstage, nbase, nhref, nkey, nkey2,
          fs, pc, queue, symbols, visited, modules, result, parsed, fetched,
          pstage, phtml, pbase, ppage, reqs>>

----------------------------------------------------------------------------
(* Bounds *)

\* longest href (in atoms) drawn as an input of the path normaliser
MaxHrefLen == 5
\* deepest base directory (in segments) drawn as an input of the normaliser
MaxBaseDepth == 2
\* most module links on one page of a documentation tree
MaxLinks == 2
\* cap on the number of pages one crawl parses
MaxParses == 6

----------------------------------------------------------------------------
(* Strings and std::path on Unix *)

Str == Seq(STRING)

Sep == "/"
Dot == "."

RootDir == <<Sep>>
CurDir == <<Dot>>
ParentDir == <<Dot, Dot>>

Front(s) == SubSeq(s, 1, Len(s) - 1)
Last(s) == s[Len(s)]

\* Path::has_root: the string starts with a separator
has_root(s) == Len(s) > 0 /\ s[1] = Sep

\* Path::components: RootDir for a leading separator, repeated separators
\* and a trailing separator ignored, "." kept only as the first component of
\* a relative path, ".." a ParentDir, anything else a Normal component
components(s) ==
    LET \* the non-empty runs of atoms between separators, left to right
        runs[q \in Str, cur \in Str] ==
            IF q = <<>>
            THEN IF cur = <<>> THEN <<>> ELSE <<cur>>
            ELSE IF q[1] = Sep
                 THEN (IF cur = <<>> THEN <<>> ELSE <<cur>>) \o runs[Tail(q), <<>>]
                 ELSE runs[Tail(q), Append(cur, q[1])]
        \* "." is normalised away
        inner[rs \in Seq(Str)] ==
            IF rs = <<>> THEN <<>>
            ELSE (IF rs[1] = CurDir THEN <<>> ELSE <<rs[1]>>) \o inner[Tail(rs)]
        \* except at the beginning of a relative path
        relative[rs \in Seq(Str)] ==
            IF rs = <<>> THEN <<>> ELSE <<rs[1]>> \o inner[Tail(rs)]
        parse[q \in Str] ==
            IF has_root(q) THEN <<RootDir>> \o inner[runs[q, <<>>]]
            ELSE relative[runs[q, <<>>]]
    IN  parse[s]

push_always_sep(buf, p) ==
    IF has_root(p) THEN p ELSE buf \o <<Sep>> \o p

\* PathBuf::push: an absolute path replaces the buffer, otherwise it is
\* appended after a separator (none when the buffer is empty or ends in one)
push(buf, p) ==
    LET pushed[b \in Str, q \in Str] ==
            IF has_root(q) THEN q
            ELSE IF b = <<>> \/ Last(b) = Sep THEN b \o q
            ELSE b \o <<Sep>> \o q
    IN  pushed[buf, p]

\* the path made of a sequence of components
from_components(cs) ==
    LET build[c \in Seq(Str)] ==
            IF c = <<>> THEN <<>> ELSE push(build[Front(c)], Last(c))
    IN  build[cs]

\* Path::parent: the path without its last component; None (modelled as
\* has |-> FALSE) for the empty path and for the root
parent(s) ==
    LET without_last[cs \in Seq(Str)] ==
            IF cs = <<>> \/ Last(cs) = RootDir
            THEN [has |-> FALSE, path |-> <<>>]
            ELSE [has |-> TRUE, path |-> from_components(Front(cs))]
    IN  without_last[components(s)]

pop_noop(buf) == buf

\* PathBuf::pop: truncate to parent(), do nothing when there is none
pop(buf) ==
    LET truncate[b \in Str, par \in [has : BOOLEAN, path : Str]] ==
            IF par.has THEN par.path ELSE b
        popped[b \in Str] == truncate[b, parent(b)]
    IN  popped[buf]

join_ignores_base(base, p) == p

\* Path::join
join(base, p) == push(base, p)

normalize_step_keeps_cur(out, comp) ==
    IF comp = ParentDir THEN pop(out) ELSE push(out, comp)

\* one arm of the match of normalize_rel_path
normalize_step(out, comp) ==
    IF comp = CurDir THEN out
    ELSE IF comp = ParentDir THEN pop(out)
    ELSE IF comp = RootDir THEN push(out, RootDir)
    ELSE push(out, comp)

\* normalize_rel_path: the loop over p.components()
normalize_rel_path(p) ==
    LET fold[out \in Str, cs \in Seq(Str)] ==
            IF cs = <<>> THEN out
            ELSE fold[normalize_step(out, cs[1]), Tail(cs)]
    IN  fold[<<>>, components(p)]

\* to_string_lossy().replace("\\", "/")
replace_backslash(s) ==
    LET replaced[q \in Str] ==
            [i \in 1..Len(q) |-> IF q[i] = "\\" THEN Sep ELSE q[i]]
    IN  replaced[s]

\* process_page, lines 368-374: the document key of a link found on a page
\* whose base directory is base_dir
full_path_str(base_dir, href) ==
    LET full_path == IF base_dir = <<>> THEN href ELSE join(base_dir, href)
    IN  replace_backslash(normalize_rel_path(full_path))

module_parent_empty(module_path) == <<>>

\* extract_symbols, lines 308-311: the base directory of a fetched module page
module_parent(module_path) ==
    LET unwrap_or_empty[par \in [has : BOOLEAN, path : Str]] ==
            IF par.has THEN par.path ELSE <<>>
    IN  unwrap_or_empty[parent(module_path)]

----------------------------------------------------------------------------
(* Inputs of the path normaliser *)

Atoms == {Sep, Dot, "a", "b"}
Names == {"a", "b"}

SeqsUpTo(S, n) == UNION {[1..k -> S] : k \in 0..n}

Hrefs == SeqsUpTo(Atoms, MaxHrefLen)

\* base directories the crawl can hold: the parent of a document key, either
\* relative or (for a key that came from a rooted link) absolute
BaseDirs ==
    {from_components(cs) : cs \in SeqsUpTo({<<n>> : n \in Names}, MaxBaseDepth)}
    \cup {from_components(<<RootDir>> \o cs) :
              cs \in SeqsUpTo({<<n>> : n \in Names}, MaxBaseDepth - 1)}

\* a disk without files
NoFiles == [p \in {} |-> <<>>]

\* no page is being parsed on its own
IdlePage ==
    /\ pstage = "idle"
    /\ phtml = <<>>
    /\ pbase = <<>>
    /\ ppage = <<>>

\* no request is being served side by side with another
IdleReqs == reqs = <<>>

IdleCrawl ==
    /\ fs = NoFiles
    /\ pc = "idle"
    /\ queue = <<>>
    /\ symbols = <<>>
    /\ visited = {}
    /\ modules = <<>>
    /\ result = [kind |-> "none"]
    /\ parsed = <<>>
    /\ fetched = <<>>

InitNorm ==
    /\ nstage = "input"
    /\ nbase \in BaseDirs
    /\ nhref \in Hrefs
    /\ nkey = <<>>
    /\ nkey2 = <<>>
    /\ IdleCrawl
    /\ IdlePage
    /\ IdleReqs

\* normalize(base, href)
NormResolve ==
    /\ nstage = "input"
    /\ nkey' = full_path_str(nbase, nhref)
    /\ nstage' = "key"
    /\ UNCHANGED <<nbase, nhref, nkey2>>
    /\ UNCHANGED <<crawlvars, pagevars, reqs>>

\* normalize("", href)
NormStandalone ==
    /\ nstage = "input"
    /\ nkey' = full_path_str(<<>>, nhref)
    /\ nstage' = "alone"
    /\ UNCHANGED <<nbase, nhref, nkey2>>
    /\ UNCHANGED <<crawlvars, pagevars, reqs>>

\* normalize(base, normalize(base, href))
NormAgain ==
    /\ nstage = "key"
    /\ nkey2' = full_path_str(nbase, nkey)
    /\ nstage' = "again"
    /\ UNCHANGED <<nbase, nhref, nkey>>
    /\ UNCHANGED <<crawlvars, pagevars, reqs>>

\* normalize(base, normalize("", href))
NormRebase ==
    /\ nstage = "alone"
    /\ nkey2' = full_path_str(nbase, nkey)
    /\ nstage' = "rebased"
    /\ UNCHANGED <<nbase, nhref, nkey>>
    /\ UNCHANGED <<crawlvars, pagevars, reqs>>

\* normalize("", normalize("", href))
NormAloneAgain ==
    /\ nstage = "alone"
    /\ nkey2' = full_path_str(<<>>, nkey)
    /\ nstage' = "aloneAgain"
    /\ UNCHANGED <<nbase, nhref, nkey>>
    /\ UNCHANGED <<crawlvars, pagevars, reqs>>

NextNorm ==
    \/ NormResolve
    \/ NormStandalone
    \/ NormAgain
    \/ NormRebase
    \/ NormAloneAgain

SpecNorm == InitNorm /\ [][NextNorm]_vars

----------------------------------------------------------------------------
(* Properties of the path normaliser *)

\* the segments of a path: what lies between its separators
RefSegments(s) ==
    LET split[q \in Str, cur \in Str] ==
            IF q = <<>>
            THEN IF cur = <<>> THEN <<>> ELSE <<cur>>
            ELSE IF q[1] = Sep
                 THEN (IF cur = <<>> THEN <<>> ELSE <<cur>>) \o split[Tail(q), <<>>]
                 ELSE split[Tail(q), Append(cur, q[1])]
    IN  split[s, <<>>]

\* stack resolution, left to right: a current-directory segment is dropped,
\* a parent-directory segment pops the last retained segment (nothing on an
\* empty stack), any other segment is pushed
RefResolve(segs) ==
    LET walk[stack \in Seq(Str), rest \in Seq(Str)] ==
            IF rest = <<>> THEN stack
            ELSE IF rest[1] = <<Dot>> THEN walk[stack, Tail(rest)]
            ELSE IF rest[1] = <<Dot, Dot>>
                 THEN walk[IF stack = <<>> THEN stack ELSE Front(stack), Tail(rest)]
            ELSE walk[Append(stack, rest[1]), Tail(rest)]
    IN  walk[<<>>, segs]

\* the segments of a stack written with one separator between them
RefJoin(stack) ==
    LET written[st \in Seq(Str)] ==
            IF st = <<>> THEN <<>>
            ELSE IF Len(st) = 1 THEN st[1]
            ELSE written[Front(st)] \o <<Sep>> \o Last(st)
    IN  written[stack]

Reference(base_dir, href) ==
    RefJoin(RefResolve(RefSegments(base_dir) \o RefSegments(href)))

\* a parent-directory segment of rel meets an empty stack when rel is
\* resolved on its own: rel climbs above the directory it starts in
ClimbsOut(rel) ==
    LET climbs[rest \in Seq(Str), depth \in Nat] ==
            IF rest = <<>> THEN FALSE
            ELSE IF rest[1] = <<Dot>> THEN climbs[Tail(rest), depth]
            ELSE IF rest[1] = <<Dot, Dot>>
                 THEN depth = 0 \/ climbs[Tail(rest), depth - 1]
            ELSE climbs[Tail(rest), depth + 1]
    IN  climbs[RefSegments(rel), 0]

IsRelative(s) == ~has_root(s)

\* a canonical document key: relative, segments separated by exactly one
\* separator, no "." and no ".." segment
IsCanonical(s) ==
    /\ IsRelative(s)
    /\ s = RefJoin(RefSegments(s))
    /\ \A k \in 1..Len(RefSegments(s)) :
          RefSegments(s)[k] \notin {<<Dot>>, <<Dot, Dot>>}

\* a canonical key that names a page
IsDocumentKey(s) == IsCanonical(s) /\ s # <<>>

\* C6 as stated: normalize(base, normalize("", rel)) = normalize(base, rel)
\* for every base directory and every relative link.
C6_RelativeIdentityAsStated ==
    (nstage = "rebased" /\ IsRelative(nhref)) =>
        nkey2 = full_path_str(nbase, nhref)

\* C6 (amended): normalize(base, normalize("", rel)) = normalize(base, rel)
\* for every base directory and every relative link that does not climb
\* above the directory it starts in; for a link that does, the two differ
\* whenever the base directory has at least one segment.
C6_RelativeIdentity ==
    (nstage = "rebased" /\ IsRelative(nhref)) =>
        ((nkey2 = full_path_str(nbase, nhref))
            <=> (~ClimbsOut(nhref) \/ RefSegments(nbase) = <<>>))

\* a link with a parent-directory segment that stays inside its directory,
\* rebased on a non-empty base directory
C6_Witness ==
    /\ nstage = "rebased"
    /\ IsRelative(nhref)
    /\ nbase # <<>>
    /\ <<Dot, Dot>> \in {RefSegments(nhref)[k] : k \in 1..Len(RefSegments(nhref))}
    /\ ~ClimbsOut(nhref)
    /\ nkey # nhref
    /\ nkey2 = full_path_str(nbase, nhref)

C8_KeysAreRelativeAndCanonical ==
    nstage = "key" => IsCanonical(nkey)

\* C9: normalize("", normalize("", x)) = normalize("", x) for every link x,
\* and normalize("", x) = x for an already-canonical key x.
C9_IdempotentEmptyBase ==
    /\ nstage = "aloneAgain" => nkey2 = nkey
    /\ (nstage = "alone" /\ IsDocumentKey(nhref)) => nkey = nhref

\* a link that the first normalisation changes, normalised twice
C9_Witness ==
    /\ nstage = "aloneAgain"
    /\ nkey # nhref
    /\ nkey # <<>>
    /\ Len(RefSegments(nhref)) >= 2

\* C10 as stated: normalize(d, normalize(d, x)) = normalize(d, x) for every
\* base directory d, empty or not, and every canonical key x.
C10_IdempotentAnyBaseAsStated ==
    (nstage = "again" /\ IsDocumentKey(nhref)) => nkey2 = nkey

\* C10 (amended): for a canonical key x, normalize(d, normalize(d, x)) =
\* normalize(d, x) when the base directory d is empty or absolute; when d is
\* relative and not empty the second application prepends d once more, so
\* the two differ.
C10_IdempotentAnyBase ==
    (nstage = "again" /\ IsDocumentKey(nhref)) =>
        IF nbase = <<>> \/ has_root(nbase)
        THEN nkey2 = nkey
        ELSE nkey2 = nbase \o <<Sep>> \o nkey /\ nkey2 # nkey

\* a canonical key of two segments normalised twice under the empty base
C10_Witness ==
    /\ nstage = "again"
    /\ IsDocumentKey(nhref)
    /\ nbase = <<>>
    /\ Len(RefSegments(nhref)) = 2
    /\ nkey2 = nhref


----------------------------------------------------------------------------
(* Page markup and the page parser *)

\* process_page: section id -> symbol_type, in the order of the vec
sections ==
    << <<"modules", "module">>,
       <<"macros", "macro">>,
       <<"structs", "struct">>,
       <<"enums", "enum">>,
       <<"functions", "function">>,
       <<"types", "type_alias">> >>

SectionIds == {sections[k][1] : k \in 1..Len(sections)}

\* The markup of a page is, for every section id, the dt and dd elements of
\* the dl.item-table that follows the h2 of that id, in document order (the
\* empty sequence when the page has no such section).  A dt carries whether
\* it contains an <a>, the text of the <a> and its href; a dd carries the
\* markdown html2md makes of its inner HTML.
Dt(id, href) == [tag |-> "dt", link |-> TRUE, id |-> id, href |-> href, md |-> <<>>]
Dd(md) == [tag |-> "dd", link |-> FALSE, id |-> "", href |-> <<>>, md |-> md]

IsSpace(c) == c = " "

\* str::trim
trim(s) ==
    LET trim_start[q \in Str] ==
            IF q # <<>> /\ IsSpace(q[1]) THEN trim_start[Tail(q)] ELSE q
        trim_end[q \in Str] ==
            IF q # <<>> /\ IsSpace(Last(q)) THEN trim_end[Front(q)] ELSE q
    IN  trim_end[trim_start[s]]

\* Option: None is <<>>, Some(x) is <<x>>
None == <<>>
Some(x) == <<x>>

SymbolInfo ==
    [symbol_id : STRING, symbol_path : Str, symbol_type : STRING,
     symbol_description : Seq(Str)]

description_untrimmed(items, j) ==
    IF j <= Len(items) /\ items[j].tag = "dd" THEN Some(items[j].md) ELSE None

\* process_page, lines 376-387: the description of a term, given the element
\* the iterator yields after it (items[j], if there is one)
description(items, j) ==
    LET non_empty[dd_trim \in Str] ==
            IF dd_trim # <<>> THEN Some(dd_trim) ELSE None
    IN  IF j <= Len(items) /\ items[j].tag = "dd"
        THEN non_empty[trim(items[j].md)]
        ELSE None

\* process_page, lines 359-400: the loop over the dt and dd elements of one
\* dl.  A dt with a link takes the next element off the iterator whatever
\* it is.
scan_dl(items, symbol_type, base_dir) ==
    LET scan[i \in Nat] ==
            IF i > Len(items) THEN <<>>
            ELSE IF items[i].tag = "dt" /\ items[i].link
            THEN << [symbol_id |-> items[i].id,
                     symbol_path |-> full_path_str(base_dir, items[i].href),
                     symbol_type |-> symbol_type,
                     symbol_description |-> description(items, i + 1)] >>
                 \o scan[i + 2]
            ELSE scan[i + 1]
    IN  scan[1]

\* process_page, lines 346-402: the loop over the sections
scan_sections(html, base_dir) ==
    LET scan[k \in Nat] ==
            IF k > Len(sections) THEN <<>>
            ELSE scan_dl(html[sections[k][1]], sections[k][2], base_dir)
                 \o scan[k + 1]
    IN  scan[1]

\* modules_to_visit: the paths of the records of type module, in order
module_paths(out) ==
    LET paths[o \in Seq(SymbolInfo)] ==
            IF o = <<>> THEN <<>>
            ELSE (IF o[1].symbol_type = "module" THEN <<o[1].symbol_path>>
                  ELSE <<>>) \o paths[Tail(o)]
    IN  paths[out]

\* process_page
process_page(html, base_dir) ==
    LET page[out \in Seq(SymbolInfo)] ==
            [out |-> out, modules_to_visit |-> module_paths(out)]
    IN  page[scan_sections(html, base_dir)]

----------------------------------------------------------------------------
(* The files of the documentation tree *)

\* the crate name of the crate_symbol_list request
CrateName == <<"demo">>

\* target/doc/<crate>
doc_dir(crate_name) == push(push(<<"target">>, <<"doc">>), crate_name)

\* the path read_doc_index_html reads
index_path(crate_name) == push(doc_dir(crate_name), <<"index.html">>)

\* the path read_doc_html_by_rel_path reads
rel_file_path(crate_name, rel_path) == push(doc_dir(crate_name), rel_path)

\* A file name that ends in ".html" is written as one atom; HtmlStem gives
\* the text before the suffix, so that a string built by appending ".html"
\* and the file name are seen to be the same characters.
HtmlStem ==
    ("index.html" :> "index") @@ ("connect.html" :> "connect")
    @@ ("struct.Listener.html" :> "struct.Listener")
    @@ ("enum.Kind.html" :> "enum.Kind")
    @@ ("fn.run.html" :> "fn.run") @@ ("fn.stop.html" :> "fn.stop")

\* the characters of a string, with every file name atom spelled out
chars(s) ==
    LET spell[q \in Str] ==
            IF q = <<>> THEN <<>>
            ELSE (IF q[1] \in DOMAIN HtmlStem
                  THEN <<HtmlStem[q[1]], ".html">> ELSE <<q[1]>>)
                 \o spell[Tail(q)]
    IN  spell[s]

\* what the disk holds for a file that exists and cannot be read
Unreadable == [unreadable |-> TRUE]

\* the walk ended at a name that does not exist
NoEntry == <<"ENOENT">>

\* The file system resolves the path that read_to_string is given: it walks
\* the components from the working directory (from the root for a rooted
\* path); ".." leaves the directory reached so far, which must exist, and
\* stays at the root when already there.  The result is the canonical path
\* of the place reached.
os_walk(path) ==
    LET above[at \in Str] ==
            at = <<>> \/ (Len(at) >= 2 /\ SubSeq(at, Len(at) - 1, Len(at)) = ParentDir)
        is_dir[at \in Str] ==
            \/ above[at]
            \/ at = RootDir
            \/ \E f \in DOMAIN fs :
                  /\ Len(chars(f)) > Len(at)
                  /\ SubSeq(chars(f), 1, Len(at) + 1) = at \o <<Sep>>
        walk[at \in Str, cs \in Seq(Str)] ==
            IF cs = <<>> \/ at = NoEntry THEN at
            ELSE IF cs[1] = RootDir THEN walk[RootDir, Tail(cs)]
            ELSE IF cs[1] = CurDir THEN walk[at, Tail(cs)]
            ELSE IF cs[1] = ParentDir
            THEN IF ~is_dir[at] THEN NoEntry
                 ELSE IF at = RootDir THEN walk[at, Tail(cs)]
                 ELSE IF above[at] THEN walk[push(at, ParentDir), Tail(cs)]
                 ELSE walk[pop(at), Tail(cs)]
            ELSE walk[push(at, cs[1]), Tail(cs)]
    IN  walk[<<>>, components(chars(path))]

\* tokio::fs::read_to_string: Ok(contents) or Err (no such file, or a file
\* that cannot be read)
read_to_string(path) ==
    LET read[hits \in SUBSET DOMAIN fs] ==
            IF hits # {} /\ fs[CHOOSE f \in hits : TRUE] # Unreadable
            THEN [ok |-> TRUE, contents |-> fs[CHOOSE f \in hits : TRUE]]
            ELSE [ok |-> FALSE, contents |-> <<>>]
    IN  read[{f \in DOMAIN fs : chars(f) = os_walk(path)}]

\* hrefs of module links
SelfLink == <<"index.html">>
UpLink == <<Dot, Dot, Sep, "index.html">>
NetLink == <<"net", Sep, "index.html">>
SubLink == <<"sub", Sep, "index.html">>
RootedLink == <<Sep, "net", Sep, "index.html">>

ModLinks == {SelfLink, UpLink, NetLink, SubLink}

\* the visible text of the link of a module entry
ModName(href) ==
    IF href = SelfLink THEN "self"
    ELSE IF href = UpLink THEN "super"
    ELSE IF href = SubLink THEN "sub"
    ELSE "net"

DocText == <<"d", "o", "c">>

\* a dl of entries; every term is followed by a description when described
RECURSIVE Entries(_, _)
Entries(dts, described) ==
    IF dts = <<>> THEN <<>>
    ELSE <<dts[1]>> \o (IF described THEN <<Dd(DocText)>> ELSE <<>>)
         \o Entries(Tail(dts), described)

ModuleDts(links) == [k \in 1..Len(links) |-> Dt(ModName(links[k]), links[k])]

EmptyPage == [sec \in SectionIds |-> <<>>]

Page(links, described, others) ==
    [sec \in SectionIds |->
        IF sec = "modules" THEN Entries(ModuleDts(links), described)
        ELSE Entries(others[sec], described)]

RootOthers ==
    [EmptyPage EXCEPT !["functions"] = <<Dt("connect", <<"connect.html">>)>>]
NetOthers ==
    [EmptyPage EXCEPT !["structs"] = <<Dt("Listener", <<"struct.Listener.html">>)>>]
SubOthers ==
    [EmptyPage EXCEPT !["enums"] = <<Dt("Kind", <<"enum.Kind.html">>)>>,
                      !["functions"] = <<Dt("run", <<"fn.run.html">>),
                                         Dt("stop", <<"fn.stop.html">>)>>]

RootFile == index_path(CrateName)
NetFile == rel_file_path(CrateName, NetLink)
SubFile == rel_file_path(CrateName, <<"net", Sep>> \o SubLink)

LinkLists == SeqsUpTo(ModLinks, MaxLinks)
SubLinkLists == {<<>>, <<UpLink, SelfLink>>, <<RootedLink>>}
Present == {{RootFile, NetFile, SubFile}, {RootFile, NetFile},
            {RootFile, SubFile}, {RootFile}}

Tree(rootLinks, netLinks, subLinks, described, present) ==
    [f \in present |->
        IF f = RootFile THEN Page(rootLinks, described, RootOthers)
        ELSE IF f = NetFile THEN Page(netLinks, described, NetOthers)
        ELSE Page(subLinks, described, SubOthers)]

Trees ==
    {Tree(r, n, s, d, p) : r \in LinkLists, n \in LinkLists,
                           s \in SubLinkLists, d \in BOOLEAN, p \in Present}
    \cup {NoFiles}

----------------------------------------------------------------------------
(* crate_symbol_list: cargo doc, the root page, the crawl *)

IdleNorm ==
    /\ nstage = "idle"
    /\ nbase = <<>>
    /\ nhref = <<>>
    /\ nkey = <<>>
    /\ nkey2 = <<>>

Init ==
    /\ fs = NoFiles
    /\ pc = "start"
    /\ queue = <<>>
    /\ symbols = <<>>
    /\ visited = {}
    /\ modules = <<>>
    /\ result = [kind |-> "none"]
    /\ parsed = <<>>
    /\ fetched = <<>>
    /\ IdleNorm
    /\ IdlePage
    /\ IdleReqs

Ok(v) == [kind |-> "ok", value |-> v]
Err(e) == [kind |-> "err", error |-> e]

\* run_cargo_doc succeeds: cargo doc has written the documentation tree of
\* the package under target/doc
RunCargoDocOk ==
    /\ pc = "start"
    /\ fs' \in Trees
    /\ pc' = "built"
    /\ UNCHANGED <<queue, symbols, visited, modules, result, parsed, fetched>>
    /\ UNCHANGED <<normvars, pagevars, reqs>>

\* run_cargo_doc fails (cargo cannot be spawned or exits with a failure):
\* the request returns the error
RunCargoDocErr ==
    /\ pc = "start"
    /\ pc' = "error"
    /\ result' = Err("cargo doc failed")
    /\ UNCHANGED <<fs, queue, symbols, visited, modules, parsed, fetched>>
    /\ UNCHANGED <<normvars, pagevars, reqs>>

\* read_doc_index_html fails: the request returns the error
ReadIndexErr ==
    /\ pc = "built"
    /\ ~read_to_string(index_path(CrateName)).ok
    /\ pc' = "error"
    /\ result' = Err("failed to read")
    /\ UNCHANGED <<fs, queue, symbols, visited, modules, parsed, fetched>>
    /\ UNCHANGED <<normvars, pagevars, reqs>>

\* read_doc_index_html succeeds; extract_symbols, lines 286-290
ReadIndexOk ==
    /\ pc = "built"
    /\ read_to_string(index_path(CrateName)).ok
    /\ queue' = << [html |-> read_to_string(index_path(CrateName)).contents,
                    base_dir |-> <<>>,
                    file |-> index_path(CrateName)] >>
    /\ symbols' = <<>>
    /\ visited' = {}
    /\ pc' = "crawl"
    /\ UNCHANGED <<fs, modules, result, parsed, fetched>>
    /\ UNCHANGED <<normvars, pagevars, reqs>>

\* where the crawl continues once `rest` is what is left of the for loop
after_links(rest) == IF rest = <<>> THEN "crawl" ELSE "links"

\* extract_symbols, lines 292-295: pop a page, parse it, keep its symbols
PopPage ==
    /\ pc = "crawl"
    /\ queue # <<>>
    /\ Len(parsed) < MaxParses
    /\ \E page \in {process_page(Head(queue).html, Head(queue).base_dir)} :
          /\ symbols' = symbols \o page.out
          /\ modules' = page.modules_to_visit
          /\ pc' = after_links(page.modules_to_visit)
    /\ queue' = Tail(queue)
    /\ parsed' = Append(parsed, Head(queue).file)
    /\ UNCHANGED <<fs, visited, result, fetched>>
    /\ UNCHANGED <<normvars, pagevars, reqs>>

\* extract_symbols, lines 299-301: the link is in visited
SkipVisited ==
    /\ pc = "links"
    /\ modules # <<>>
    /\ Head(modules) \in visited
    /\ modules' = Tail(modules)
    /\ pc' = after_links(Tail(modules))
    /\ UNCHANGED <<fs, queue, symbols, visited, result, parsed, fetched>>
    /\ UNCHANGED <<normvars, pagevars, reqs>>

visited_insert_replaces(set, module_path) == {module_path}

visited_insert_lost(set, module_path) == set

\* visited.insert(module_path)
visited_insert(set, module_path) == set \cup {module_path}

\* extract_symbols, lines 303-314: the page of the link is read and queued
FetchOk ==
    /\ pc = "links"
    /\ modules # <<>>
    /\ Head(modules) \notin visited
    /\ LET module_path == Head(modules)
           file == rel_file_path(CrateName, module_path)
           read == read_to_string(file)
       IN  /\ read.ok
           /\ queue' = Append(queue, [html |-> read.contents,
                                      base_dir |-> module_parent(module_path),
                                      file |-> file])
           /\ visited' = visited_insert(visited, module_path)
           /\ fetched' = Append(fetched, [key |-> module_path, file |-> file,
                                          ok |-> TRUE])
    /\ modules' = Tail(modules)
    /\ pc' = after_links(Tail(modules))
    /\ UNCHANGED <<fs, symbols, result, parsed>>
    /\ UNCHANGED <<normvars, pagevars, reqs>>

\* extract_symbols, lines 303-306 and 315-317: the read fails, the link is
\* dropped
FetchErr ==
    /\ pc = "links"
    /\ modules # <<>>
    /\ Head(modules) \notin visited
    /\ LET module_path == Head(modules)
           file == rel_file_path(CrateName, module_path)
       IN  /\ ~read_to_string(file).ok
           /\ fetched' = Append(fetched, [key |-> module_path, file |-> file,
                                          ok |-> FALSE])
    /\ modules' = Tail(modules)
    /\ pc' = after_links(Tail(modules))
    /\ UNCHANGED <<fs, queue, symbols, visited, result, parsed>>
    /\ UNCHANGED <<normvars, pagevars, reqs>>

\* extract_symbols, line 322, and crate_symbol_list, line 86
Return ==
    /\ pc = "crawl"
    /\ queue = <<>>
    /\ pc' = "done"
    /\ result' = Ok(symbols)
    /\ UNCHANGED <<fs, queue, symbols, visited, modules, parsed, fetched>>
    /\ UNCHANGED <<normvars, pagevars, reqs>>

Next ==
    \/ RunCargoDocOk
    \/ RunCargoDocErr
    \/ ReadIndexErr
    \/ ReadIndexOk
    \/ PopPage
    \/ SkipVisited
    \/ FetchOk
    \/ FetchErr
    \/ Return

Spec == Init /\ [][Next]_vars

\* every step of a request is taken once it can be: the runtime polls the
\* request's future until it completes
FairSpec == Spec /\ WF_vars(Next)

----------------------------------------------------------------------------
(* Properties of the crawl *)

Count(seq, x) == Cardinality({i \in 1..Len(seq) : seq[i] = x})

\* C1: during one crawl every page of the tree, the root page included, is
\* parsed at most once, and two module links with the same document key are
\* the same page (the key is read successfully at most once).
C1_EachPageParsedOnce ==
    /\ \A i, j \in 1..Len(parsed) : parsed[i] = parsed[j] => i = j
    /\ \A i, j \in 1..Len(fetched) :
          (fetched[i].ok /\ fetched[j].ok /\ fetched[i].key = fetched[j].key)
              => i = j

\* C2: once the crawl loop has started it reaches an empty frontier and the
\* request returns the symbols, whatever cyclic, duplicate or dangling
\* module links the tree has.
C2_CrawlTerminates ==
    (pc = "crawl") ~> (pc = "done" /\ queue = <<>> /\ result.kind = "ok")

\* a finished crawl of a tree with a cycle through the root and a link whose
\* page is missing
C2_Witness ==
    /\ pc = "done"
    /\ Count(parsed, RootFile) > 1
    /\ \E i \in 1..Len(fetched) : ~fetched[i].ok
    /\ \E i \in 1..Len(fetched) : fetched[i].ok

\* identifier, category and path of every record, in order
Summary(records) ==
    [k \in 1..Len(records) |->
        <<records[k].symbol_id, records[k].symbol_type, records[k].symbol_path>>]

\* the tree of the end-to-end scenario: the root page declares the module
\* net and the function connect, net/index.html declares the struct Listener
IsScenario ==
    \E d \in BOOLEAN, p \in {{RootFile, NetFile}, {RootFile, NetFile, SubFile}},
       sl \in SubLinkLists :
        fs = Tree(<<NetLink>>, <<>>, sl, d, p)

ConnectRecord == <<"connect", "function", <<"connect.html">>>>
NetRecord == <<"net", "module", <<"net", Sep, "index.html">>>>
ListenerRecord == <<"Listener", "struct", <<"net", Sep, "struct.Listener.html">>>>

\* C3 as stated: in the scenario the request returns connect, net, Listener
\* in this order.
C3_ScenarioAsStated ==
    (pc = "done" /\ IsScenario) =>
        Summary(result.value) = <<ConnectRecord, NetRecord, ListenerRecord>>

\* C3 (amended): in the scenario the request returns exactly three records,
\* in the order net (module, net/index.html), connect (function,
\* connect.html), Listener (struct, net/struct.Listener.html): the module
\* section of a page comes before its function section.
C3_Scenario ==
    (pc = "done" /\ IsScenario) =>
        Summary(result.value) = <<NetRecord, ConnectRecord, ListenerRecord>>

C3_Witness == pc = "done" /\ IsScenario /\ Len(result.value) = 3

\* the terms with a link of one section of a page
Declared(html, sec) ==
    {i \in 1..Len(html[sec]) : html[sec][i].tag = "dt" /\ html[sec][i].link}

\* the records a page declares: one per term with a link, with the category
\* of its section
DeclaredRecords(html, base_dir) ==
    UNION { {<<html[sections[k][1]][i].id, sections[k][2],
               full_path_str(base_dir, html[sections[k][1]][i].href)>> :
                i \in Declared(html, sections[k][1])} :
            k \in 1..Len(sections) }

NumDeclared(html) ==
    LET RECURSIVE Sum(_)
        Sum(k) == IF k > Len(sections) THEN 0
                  ELSE Cardinality(Declared(html, sections[k][1])) + Sum(k + 1)
    IN  Sum(1)

\* the base directory of the page stored in a file of the tree
BaseOf(file) ==
    IF file = RootFile THEN <<>>
    ELSE IF file = NetFile THEN <<"net">>
    ELSE <<"net", Sep, "sub">>

\* a tree of depth 3 whose module links connect every level: the root page
\* links net, net links sub, every page exists
IsDepth3Tree ==
    \E d \in BOOLEAN :
        fs = Tree(<<NetLink>>, <<SubLink>>, <<>>, d, {RootFile, NetFile, SubFile})

RECURSIVE SumOver(_, _)
SumOver(S, f) ==
    IF S = {} THEN 0
    ELSE LET x == CHOOSE y \in S : TRUE IN f[x] + SumOver(S \ {x}, f)

\* C4: the crawl of a depth 3 tree returns exactly one record per symbol
\* declared on any page, with the category of the declaring section.
C4_Complete ==
    (pc = "done" /\ IsDepth3Tree) =>
        /\ \A f \in DOMAIN fs :
              \A r \in DeclaredRecords(fs[f], BaseOf(f)) :
                  Count(Summary(result.value), r) = 1
        /\ Len(result.value) =
              SumOver(DOMAIN fs, [f \in DOMAIN fs |-> NumDeclared(fs[f])])

\* the module links a page declares, as document keys
DeclaredModuleKeys(html, base_dir) ==
    {full_path_str(base_dir, html["modules"][i].href) :
        i \in Declared(html, "modules")}

\* the files reached from the root page through declared module links whose
\* pages can be read
RECURSIVE ReachableFrom(_)
ReachableFrom(S) ==
    LET more == {rel_file_path(CrateName, k) :
                    k \in UNION {DeclaredModuleKeys(fs[f], BaseOf(f)) : f \in S}}
                \cap DOMAIN fs
    IN  IF more \subseteq S THEN S ELSE ReachableFrom(S \cup more)

Reachable == IF RootFile \in DOMAIN fs THEN ReachableFrom({RootFile}) ELSE {}

\* some reachable page has a module link whose page cannot be read
HasDanglingLink ==
    \E f \in Reachable :
        \E k \in DeclaredModuleKeys(fs[f], BaseOf(f)) :
            rel_file_path(CrateName, k) \notin DOMAIN fs

\* C5: a module link whose page cannot be read never makes the crawl fail,
\* and the result still holds every symbol of every page reachable through
\* readable links; the failing link adds no sub-page symbols.
C5_PartialFailure ==
    /\ pc = "error" => (parsed = <<>> /\ fetched = <<>>)
    /\ (pc = "done" /\ HasDanglingLink) =>
          /\ result.kind = "ok"
          /\ \A f \in Reachable :
                \A r \in DeclaredRecords(fs[f], BaseOf(f)) :
                    Count(Summary(result.value), r) >= 1
          /\ \A i \in 1..Len(fetched) :
                ~fetched[i].ok => Count(parsed, fetched[i].file) = 0

\* C17: a module link is put into visited before its page is fetched and
\* stays there whether the fetch succeeds or fails, so that within one crawl
\* no document key is fetched twice: a key whose fetch failed is not
\* fetched again when a later link resolves to it.
C17_FetchedAtMostOnce ==
    /\ \A i \in 1..Len(fetched) : fetched[i].key \in visited
    /\ \A i, j \in 1..Len(fetched) :
          fetched[i].key = fetched[j].key => i = j

\* the entries a page declares, as summaries, in the order of the claim:
\* section by section in the fixed order, in document order within a section
RECURSIVE DeclaredFrom(_, _, _, _)
DeclaredFrom(html, base_dir, k, i) ==
    IF k > Len(sections) THEN <<>>
    ELSE IF i > Len(html[sections[k][1]])
    THEN DeclaredFrom(html, base_dir, k + 1, 1)
    ELSE (IF i \in Declared(html, sections[k][1])
          THEN << <<html[sections[k][1]][i].id, sections[k][2],
                    full_path_str(base_dir, html[sections[k][1]][i].href)>> >>
          ELSE <<>>)
         \o DeclaredFrom(html, base_dir, k, i + 1)

\* the sequence without the later occurrences of its elements
RECURSIVE Distinct(_)
Distinct(seq) ==
    IF seq = <<>> THEN <<>>
    ELSE LET front == Distinct(Front(seq))
         IN  IF Count(front, Last(seq)) > 0 THEN front
             ELSE Append(front, Last(seq))

\* a is b with some elements left out
RECURSIVE IsSubseq(_, _)
IsSubseq(a, b) ==
    IF a = <<>> THEN TRUE
    ELSE IF b = <<>> THEN FALSE
    ELSE IF a[1] = b[1] THEN IsSubseq(Tail(a), Tail(b))
    ELSE IsSubseq(a, Tail(b))

\* the pages of the crawl in the order of their discovery: the root page,
\* then the module pages in the order in which they were queued
DiscoveredPages ==
    Distinct(<<RootFile>>
             \o [k \in 1..Len(SelectSeq(fetched, LAMBDA e : e.ok)) |->
                    SelectSeq(fetched, LAMBDA e : e.ok)[k].file])

\* the declared entries of the discovered pages, page after page
RECURSIVE DeclaredOf(_)
DeclaredOf(pages) ==
    IF pages = <<>> THEN <<>>
    ELSE DeclaredFrom(fs[pages[1]], BaseOf(pages[1]), 1, 1)
         \o DeclaredOf(Tail(pages))

\* C19: the records of one page are contiguous in the result, in the order
\* of the sections modules, macros, structs, enums, functions, types and in
\* document order within a section; the pages contribute in the order of
\* their discovery, the root page first.
C19_ResultOrdering ==
    pc = "done" =>
        IsSubseq(Summary(result.value), DeclaredOf(DiscoveredPages))

\* the pages on the frontier that are not the root page have their key in
\* visited
FrontierVisited ==
    \A i \in 1..Len(queue) :
        queue[i].file # RootFile =>
            \E key \in visited : rel_file_path(CrateName, key) = queue[i].file

\* C22: throughout a crawl no key is ever removed from visited, visited
\* never holds more keys than the tree has pages, and every page on the
\* frontier other than the root page has its key in visited.
C22_VisitedGrowsBounded ==
    /\ [][visited \subseteq visited']_vars
    /\ [](Cardinality(visited) <= Cardinality(DOMAIN fs))
    /\ []FrontierVisited

\* the keys of all three pages of a tree are in visited while the pages of
\* the root and of net::sub wait on the frontier
C22_Witness ==
    /\ Cardinality(DOMAIN fs) = 3
    /\ Cardinality(visited) = 3
    /\ Len(queue) = 2
    /\ queue[2].file = SubFile

----------------------------------------------------------------------------
(* The three tools: crate_overview, crate_symbol_list, crate_symbol_get *)

\* Besides its sections a page has regions: for the selectors div.docblock
\* and section#main-content, the inner HTML of every element the selector
\* matches, in document order.  Inner HTML is a string whose atoms are tags
\* and characters.
RegionIds == {"div.docblock", "section#main-content"}

Tags == {"<p>", "</p>"}

\* document.select(selector): the inner HTML of the matches, in order
select(html, selector) ==
    IF selector \in DOMAIN html THEN html[selector] ELSE <<>>

\* html2md::parse_html: the text of the markup, without its tags
parse_html(inner_html) ==
    LET text[q \in Str] ==
            IF q = <<>> THEN <<>>
            ELSE (IF q[1] \in Tags THEN <<>> ELSE <<q[1]>>) \o text[Tail(q)]
    IN  text[inner_html]

extract_docblock_or_empty(html) ==
    IF select(html, "div.docblock") = <<>> THEN Some(<<>>)
    ELSE Some(Head(select(html, "div.docblock")))

\* extract_docblock: the inner HTML of the first div.docblock
extract_docblock(html) ==
    IF select(html, "div.docblock") = <<>> THEN None
    ELSE Some(Head(select(html, "div.docblock")))

\* crate_symbol_get, lines 111-116: the closure given to spawn_blocking
main_content(html) ==
    IF select(html, "section#main-content") = <<>> THEN None
    ELSE Some(parse_html(Head(select(html, "section#main-content"))))

crate_name_whole_id(crate_id) == crate_id

\* crate_id.split('@').next().unwrap_or(&crate_id): the text before the
\* first '@' (split always yields a first piece)
crate_name_of(crate_id) ==
    LET piece[q \in Str] ==
            IF q = <<>> \/ q[1] = "@" THEN <<>>
            ELSE <<q[1]>> \o piece[Tail(q)]
    IN  piece[crate_id]

\* str::trim_start_matches('/')
trim_start_matches_sep(s) ==
    LET strip[q \in Str] ==
            IF q # <<>> /\ q[1] = Sep THEN strip[Tail(q)] ELSE q
    IN  strip[s]

\* str::ends_with(".html")
ends_with_html(s) == chars(s) # <<>> /\ Last(chars(s)) = ".html"

\* crate_symbol_get, lines 104-108: the file name asked for
symbol_rel(symbol_path) ==
    LET with_suffix[rel \in Str] ==
            IF ends_with_html(rel) THEN rel ELSE rel \o <<".html">>
    IN  with_suffix[trim_start_matches_sep(trim(symbol_path))]

run_cargo_doc_unchecked(success) == Ok(<<>>)

\* run_cargo_doc, lines 244-251: the exit status of cargo doc decides
run_cargo_doc(success) ==
    IF success THEN Ok(<<>>) ELSE Err("cargo doc failed")

\* what a request has done, in order: cargo doc runs, file reads, parses
Event(ev, path, ok) == [ev |-> ev, path |-> path, ok |-> ok]

\* a request before its handler has run
NewRequest(op, crate_id, symbol_path) ==
    [op |-> op, crate_id |-> crate_id, symbol_path |-> symbol_path,
     pc |-> "start", html |-> <<>>, queue |-> <<>>, symbols |-> <<>>,
     visited |-> {}, modules |-> <<>>, result |-> [kind |-> "none"],
     pending |-> <<>>, log |-> <<>>]

\* the handler returns Err(e)
fail(req, e) == [req EXCEPT !.pc = "error", !.result = Err(e)]

\* self.run_cargo_doc(crate_name).await?
cargo_doc(req, success) ==
    LET logged == [req EXCEPT !.log = Append(@,
                       Event("doc", crate_name_of(req.crate_id), success))]
    IN  IF run_cargo_doc(success).kind = "ok"
        THEN [logged EXCEPT !.pc = "built"]
        ELSE fail(logged, "cargo doc failed")

\* read_doc_index_html(crate_name).await? in crate_overview and
\* crate_symbol_list; the latter then enters extract_symbols (lines 286-290)
read_index(req) ==
    LET file == index_path(crate_name_of(req.crate_id))
        read == read_to_string(file)
        logged == [req EXCEPT !.log = Append(@, Event("read", file, read.ok))]
    IN  IF ~read.ok THEN fail(logged, "failed to read")
        ELSE IF req.op = "crate_overview"
        THEN [logged EXCEPT !.pc = "page", !.html = read.contents]
        ELSE [logged EXCEPT !.pc = "crawl",
                            !.queue = << [html |-> read.contents,
                                          base_dir |-> <<>>,
                                          file |-> file] >>]

\* crate_symbol_get, lines 104-110
read_symbol(req) ==
    LET file == rel_file_path(crate_name_of(req.crate_id),
                              symbol_rel(req.symbol_path))
        read == read_to_string(file)
        logged == [req EXCEPT !.log = Append(@, Event("read", file, read.ok))]
    IN  IF ~read.ok THEN fail(logged, "failed to read")
        ELSE [logged EXCEPT !.pc = "page", !.html = read.contents]

\* crate_overview, lines 65-71
overview(req) ==
    LET docblock_html == extract_docblock(req.html)
        logged == [req EXCEPT !.log = Append(@,
                       Event("parse", Last(req.log).path, TRUE))]
    IN  IF docblock_html = None
        THEN fail(logged, "no <div class=\"docblock\"> found in index.html")
        ELSE [logged EXCEPT !.pc = "done",
                            !.result = Ok(parse_html(docblock_html[1]))]

\* crate_symbol_get, lines 111-122
symbol_body(req) ==
    LET md == main_content(req.html)
        logged == [req EXCEPT !.log = Append(@,
                       Event("parse", Last(req.log).path, TRUE))]
    IN  IF md = None THEN fail(logged, "section#main-content not found")
        ELSE [logged EXCEPT !.pc = "done", !.result = Ok(md[1])]

\* extract_symbols, lines 292-295
pop_page(req) ==
    LET page == process_page(Head(req.queue).html, Head(req.queue).base_dir)
    IN  [req EXCEPT !.queue = Tail(@),
                    !.symbols = @ \o page.out,
                    !.modules = page.modules_to_visit,
                    !.pc = after_links(page.modules_to_visit),
                    !.log = Append(@, Event("parse", Head(req.queue).file,
                                            TRUE))]

\* extract_symbols, lines 299-301
skip_visited(req) ==
    [req EXCEPT !.modules = Tail(@), !.pc = after_links(Tail(req.modules))]

fetch_failed_returns(req) == fail(req, "failed to read")

\* extract_symbols, lines 315-317: Err(_) => {}
fetch_failed(req) == req

\* extract_symbols, lines 303-318
fetch(req) ==
    LET module_path == Head(req.modules)
        file == rel_file_path(crate_name_of(req.crate_id), module_path)
        read == read_to_string(file)
        next == [req EXCEPT !.modules = Tail(@),
                            !.pc = after_links(Tail(req.modules)),
                            !.log = Append(@, Event("read", file, read.ok))]
    IN  IF read.ok
        THEN [next EXCEPT !.queue = Append(@,
                              [html |-> read.contents,
                               base_dir |-> module_parent(module_path),
                               file |-> file]),
                          !.visited = visited_insert(@, module_path)]
        ELSE fetch_failed(next)

fetch_start_spawned(req) ==
    [req EXCEPT !.pending = Append(@, rel_file_path(crate_name_of(req.crate_id),
                                                    Head(req.modules))),
                !.modules = Tail(@),
                !.pc = after_links(Tail(req.modules)),
                !.log = Append(@, Event("fetch",
                                        rel_file_path(crate_name_of(req.crate_id),
                                                      Head(req.modules)),
                                        TRUE))]

\* extract_symbols, lines 303-305: read_doc_html_by_rel_path is called and
\* awaited; the crawl is suspended until the read completes
fetch_start(req) ==
    [req EXCEPT !.pending = Append(@, rel_file_path(crate_name_of(req.crate_id),
                                                    Head(req.modules))),
                !.pc = "await",
                !.log = Append(@, Event("fetch",
                                        rel_file_path(crate_name_of(req.crate_id),
                                                      Head(req.modules)),
                                        TRUE))]

\* extract_symbols, lines 306-318: the read has completed
fetch_done(req) == [fetch(req) EXCEPT !.pending = Tail(@)]

\* extract_symbols, line 322, and crate_symbol_list, line 86
return_symbols(req) == [req EXCEPT !.pc = "done", !.result = Ok(req.symbols)]

visited_shared(rs, r) == UNION {rs[q].visited : q \in DOMAIN rs}

\* extract_symbols, line 290: visited is a local of the call
visited_of(rs, r) == rs[r].visited

\* request r takes the step that leads to the state req
Step(r, req) ==
    /\ reqs' = [reqs EXCEPT ![r] = req]
    /\ UNCHANGED <<normvars, crawlvars, pagevars>>

ReqCargoDoc ==
    \E r \in DOMAIN reqs :
        /\ reqs[r].pc = "start"
        /\ \E success \in BOOLEAN : Step(r, cargo_doc(reqs[r], success))

ReqReadIndex ==
    \E r \in DOMAIN reqs :
        /\ reqs[r].pc = "built"
        /\ reqs[r].op \in {"crate_overview", "crate_symbol_list"}
        /\ Step(r, read_index(reqs[r]))

ReqReadSymbol ==
    \E r \in DOMAIN reqs :
        /\ reqs[r].pc = "built"
        /\ reqs[r].op = "crate_symbol_get"
        /\ Step(r, read_symbol(reqs[r]))

ReqOverview ==
    \E r \in DOMAIN reqs :
        /\ reqs[r].pc = "page"
        /\ reqs[r].op = "crate_overview"
        /\ Step(r, overview(reqs[r]))

ReqSymbolBody ==
    \E r \in DOMAIN reqs :
        /\ reqs[r].pc = "page"
        /\ reqs[r].op = "crate_symbol_get"
        /\ Step(r, symbol_body(reqs[r]))

ReqPopPage ==
    \E r \in DOMAIN reqs :
        /\ reqs[r].pc = "crawl"
        /\ reqs[r].queue # <<>>
        /\ Step(r, pop_page(reqs[r]))

ReqSkipVisited ==
    \E r \in DOMAIN reqs :
        /\ reqs[r].pc = "links"
        /\ Head(reqs[r].modules) \in visited_of(reqs, r)
        /\ Step(r, skip_visited(reqs[r]))

ReqFetch ==
    \E r \in DOMAIN reqs :
        /\ reqs[r].pc = "links"
        /\ Head(reqs[r].modules) \notin visited_of(reqs, r)
        /\ Step(r, fetch(reqs[r]))

\* the read of a module page, as the two steps around its suspension point
ReqFetchStart ==
    \E r \in DOMAIN reqs :
        /\ reqs[r].pc = "links"
        /\ Head(reqs[r].modules) \notin visited_of(reqs, r)
        /\ Step(r, fetch_start(reqs[r]))

ReqFetchDone ==
    \E r \in DOMAIN reqs :
        /\ reqs[r].pc = "await"
        /\ reqs[r].pending # <<>>
        /\ Step(r, fetch_done(reqs[r]))

ReqReturn ==
    \E r \in DOMAIN reqs :
        /\ reqs[r].pc = "crawl"
        /\ reqs[r].queue = <<>>
        /\ Step(r, return_symbols(reqs[r]))

----------------------------------------------------------------------------
(* One request, for any of the three tools *)

Html1 == <<"<p>", "o", "n", "e", "</p>">>
Html2 == <<"<p>", "t", "w", "o", "</p>">>

\* the regions a selector may match on a page: none, one without content,
\* one, two
RegionLists == {<<>>, << <<>> >>, <<Html2>>, <<Html1, Html2>>}

\* the page with the given div.docblock and section#main-content regions
WithRegions(page, docblocks, mains) ==
    [k \in SectionIds \cup RegionIds |->
        IF k = "div.docblock" THEN docblocks
        ELSE IF k = "section#main-content" THEN mains
        ELSE page[k]]

ListenerFile ==
    rel_file_path(CrateName, <<"net", Sep, "struct.Listener.html">>)

\* the index page of a directory named after a whole crate id with a version
DecoyFile == index_path(<<"demo", "@", "1.0">>)

FileStates == {"present", "absent", "unreadable"}

\* a disk: the root page of demo links the modules net, sub and net again (sub has no
\* page), net declares the struct Listener, and the pages are present,
\* absent or unreadable
ReqDisk(root, net, sym, docblocks, mains) ==
    LET state == (RootFile :> root) @@ (NetFile :> net)
                 @@ (ListenerFile :> sym) @@ (DecoyFile :> "present")
        contents ==
            (RootFile :> WithRegions(Page(<<NetLink, SubLink, NetLink>>, TRUE,
                                          RootOthers), docblocks, <<>>))
            @@ (NetFile :> WithRegions(Page(<<>>, TRUE, NetOthers),
                                       <<Html1>>, <<>>))
            @@ (ListenerFile :> WithRegions(EmptyPage, <<Html2>>, mains))
            @@ (DecoyFile :> WithRegions(EmptyPage, <<Html1>>, <<Html1>>))
    IN  [f \in {g \in DOMAIN state : state[g] # "absent"} |->
            IF state[f] = "unreadable" THEN Unreadable ELSE contents[f]]

ReqDisks ==
    {ReqDisk(root, net, sym, d, m) :
        root \in FileStates, net \in FileStates, sym \in FileStates,
        d \in RegionLists, m \in RegionLists}

CrateIds ==
    {<<"demo">>, <<"demo", "@", "1.0">>, <<"demo", "@", "1.0", "@", "x">>,
     <<"other">>, <<"@", "1.0">>}

SymbolPaths ==
    {<<"net", Sep, "struct.Listener.html">>,
     <<"net", Sep, "struct.Listener">>,
     <<" ", Sep, Sep, "net", Sep, "struct.Listener", " ">>,
     <<"index.html">>, <<"missing">>, <<>>}

Requests ==
    {NewRequest(op, c, <<>>) :
        op \in {"crate_overview", "crate_symbol_list"}, c \in CrateIds}
    \cup {NewRequest("crate_symbol_get", c, p) :
              c \in CrateIds, p \in SymbolPaths}

\* the crate_symbol_list request of Spec is not running
IdleList ==
    /\ pc = "idle"
    /\ queue = <<>>
    /\ symbols = <<>>
    /\ visited = {}
    /\ modules = <<>>
    /\ result = [kind |-> "none"]
    /\ parsed = <<>>
    /\ fetched = <<>>

InitReq ==
    /\ fs \in ReqDisks
    /\ reqs \in {<<req>> : req \in Requests}
    /\ IdleList
    /\ IdleNorm
    /\ IdlePage

NextReq ==
    \/ ReqCargoDoc
    \/ ReqReadIndex
    \/ ReqReadSymbol
    \/ ReqOverview
    \/ ReqSymbolBody
    \/ ReqPopPage
    \/ ReqSkipVisited
    \/ ReqFetch
    \/ ReqReturn

SpecReq == InitReq /\ [][NextReq]_vars

----------------------------------------------------------------------------
(* Properties of one request *)

\* the request has ended
Ended(req) == req.pc \in {"done", "error"}

\* the events of a kind in the log of a request
EventsOf(req, ev) == SelectSeq(req.log, LAMBDA e : e.ev = ev)

\* the selector a single-page tool extracts, and its not-found error
RegionOf(op) ==
    IF op = "crate_overview" THEN "div.docblock" ELSE "section#main-content"
NotFoundOf(op) ==
    IF op = "crate_overview"
    THEN "no <div class=\"docblock\"> found in index.html"
    ELSE "section#main-content not found"

\* the request is for a single page and it has read that page
HasPage(req) ==
    /\ req.op \in {"crate_overview", "crate_symbol_get"}
    /\ Ended(req)
    /\ EventsOf(req, "read") # <<>>
    /\ EventsOf(req, "read")[1].ok

\* the regions of the page the request has read that its tool extracts
RegionsRead(req) ==
    select(read_to_string(EventsOf(req, "read")[1].path).contents,
           RegionOf(req.op))

\* C11: crate_overview on a page without a div.docblock, and
\* crate_symbol_get on a page without a section#main-content, end with the
\* not-found error and never with a success value; when the region is there
\* they end with Ok of the converted text of the first such region.
C11_RegionOrNotFound ==
    \A r \in DOMAIN reqs :
        HasPage(reqs[r]) =>
            IF RegionsRead(reqs[r]) = <<>>
            THEN reqs[r].result = Err(NotFoundOf(reqs[r].op))
            ELSE reqs[r].result = Ok(parse_html(RegionsRead(reqs[r])[1]))

\* crate_overview has returned the text of the first of two doc-blocks
C11_Witness ==
    \E r \in DOMAIN reqs :
        /\ HasPage(reqs[r])
        /\ reqs[r].op = "crate_overview"
        /\ Len(RegionsRead(reqs[r])) = 2
        /\ reqs[r].result = Ok(<<"o", "n", "e">>)

\* the text of a crate id before its first '@' (all of it without an '@')
NameBeforeAt(crate_id) ==
    LET ats == {i \in 1..Len(crate_id) : crate_id[i] = "@"}
    IN  IF ats = {} THEN crate_id
        ELSE SubSeq(crate_id, 1, (CHOOSE i \in ats : \A j \in ats : i <= j) - 1)

IsPrefix(p, s) == Len(p) <= Len(s) /\ SubSeq(s, 1, Len(p)) = p

\* the directory target/doc/<name>, with its trailing separator
TreeOf(name) ==
    <<"target", Sep, "doc", Sep>> \o (IF name = <<>> THEN <<>> ELSE name \o <<Sep>>)

\* C13: whatever the tool, cargo doc is run for the text of the crate id
\* before its first '@' and every file read lies in the directory
\* target/doc/<that text>; a crate id without '@' is used as it is.
C13_NameOnlyAddressing ==
    \A r \in DOMAIN reqs : \A i \in 1..Len(reqs[r].log) :
        LET e == reqs[r].log[i]
            name == NameBeforeAt(reqs[r].crate_id)
        IN  /\ e.ev = "doc" => e.path = name
            /\ e.ev = "read" => IsPrefix(TreeOf(name), e.path)
            /\ e.ev = "read" /\ reqs[r].op # "crate_symbol_get" /\ i = 2 =>
                   e.path = TreeOf(name) \o <<"index.html">>

\* crate_symbol_list for demo@1.0@x has read the pages of demo
C13_Witness ==
    \E r \in DOMAIN reqs :
        /\ reqs[r].crate_id = <<"demo", "@", "1.0", "@", "x">>
        /\ reqs[r].op = "crate_symbol_list"
        /\ reqs[r].pc = "done"
        /\ \E i \in 1..Len(reqs[r].log) :
              /\ reqs[r].log[i] = Event("read", NetFile, TRUE)
              /\ reqs[r].log[1] = Event("doc", <<"demo">>, TRUE)

\* C14: in every request cargo doc has completed, with success, before the
\* first file is read; when cargo doc fails the request ends with an error
\* and reads no file, parses no page and takes no step of the crawl.
C14_BuildBeforeRead ==
    \A r \in DOMAIN reqs :
        /\ \A i \in 1..Len(reqs[r].log) :
              reqs[r].log[i].ev \in {"read", "parse"} =>
                  /\ i > 1
                  /\ reqs[r].log[1].ev = "doc"
                  /\ reqs[r].log[1].ok
        /\ EventsOf(reqs[r], "doc") # <<>> /\ ~EventsOf(reqs[r], "doc")[1].ok =>
              /\ reqs[r].pc = "error"
              /\ reqs[r].result = Err("cargo doc failed")
              /\ Len(reqs[r].log) = 1
              /\ reqs[r].queue = <<>> /\ reqs[r].symbols = <<>>
              /\ reqs[r].visited = {} /\ reqs[r].html = <<>>

\* cargo doc has failed for demo while the pages of an earlier build are
\* on disk
C14_Witness ==
    \E r \in DOMAIN reqs :
        /\ reqs[r].log = <<Event("doc", <<"demo">>, FALSE)>>
        /\ reqs[r].pc = "error"
        /\ read_to_string(RootFile).ok

\* C15: when the read of the root page (crate_symbol_list, crate_overview)
\* or of the page asked for (crate_symbol_get) fails, the request ends with
\* that error; a read that fails for a page fetched during the crawl never
\* ends the request with an error: the crawl goes on and returns Ok.
C15_ReadFailures ==
    \A r \in DOMAIN reqs :
        LET reads == EventsOf(reqs[r], "read")
        IN  /\ reads # <<>> /\ ~reads[1].ok =>
                  /\ reqs[r].pc = "error"
                  /\ reqs[r].result = Err("failed to read")
                  /\ Len(reads) = 1
            /\ reads # <<>> /\ reads[1].ok /\ reqs[r].op = "crate_symbol_list" =>
                  /\ reqs[r].pc # "error"
                  /\ reqs[r].pc = "done" => reqs[r].result = Ok(reqs[r].symbols)

\* a crawl has returned Ok although the page of one module cannot be read
\* and the page of another does not exist
C15_Witness ==
    \E r \in DOMAIN reqs :
        LET reads == EventsOf(reqs[r], "read")
        IN  /\ reqs[r].pc = "done"
            /\ reqs[r].result.kind = "ok"
            /\ Len(reads) >= 3
            /\ reads[2] = Event("read", NetFile, FALSE)
            /\ NetFile \in DOMAIN fs
            /\ ~reads[3].ok
            /\ \A f \in DOMAIN fs : chars(f) # chars(reads[3].path)

----------------------------------------------------------------------------
(* Two crate_symbol_list requests served at the same time *)

OtherName == <<"other">>

\* the file of the tree of demo, in the tree of the crate name
Moved(f, name) ==
    doc_dir(name) \o SubSeq(f, Len(doc_dir(CrateName)) + 1, Len(f))

\* the documentation tree of demo as the tree of the crate name
TreeFor(tree, name) ==
    [f \in {Moved(g, name) : g \in DOMAIN tree} |->
        tree[CHOOSE g \in DOMAIN tree : Moved(g, name) = f]]

\* trees of demo with a link listed twice, a link without a page, links
\* to the parent and to the page itself
TwoTrees ==
    {Tree(r, n, <<>>, d, p) :
        r \in {<<NetLink, NetLink>>, <<NetLink, SubLink>>},
        n \in {<<SubLink>>, <<UpLink, SelfLink>>},
        d \in BOOLEAN,
        p \in {{RootFile, NetFile, SubFile}, {RootFile, NetFile}}}

OtherTree ==
    TreeFor(Tree(<<NetLink>>, <<SubLink, UpLink>>, <<>>, TRUE,
                 {RootFile, NetFile, SubFile}), OtherName)

\* the disk holds the tree of demo and the tree of other
TwoDisks == {tree @@ OtherTree : tree \in TwoTrees}

\* the two requests are for the same package or for different packages
CratePairs ==
    {<<CrateName, CrateName>>, <<CrateName, OtherName>>,
     <<<<"demo", "@", "1.0">>, CrateName>>}

InitTwo ==
    /\ fs \in TwoDisks
    /\ reqs \in {<<NewRequest("crate_symbol_list", ids[1], <<>>),
                   NewRequest("crate_symbol_list", ids[2], <<>>)>> :
                     ids \in CratePairs}
    /\ IdleList
    /\ IdleNorm
    /\ IdlePage

\* the scheduler runs a step of one of the two requests
NextTwo ==
    \/ ReqCargoDoc
    \/ ReqReadIndex
    \/ ReqPopPage
    \/ ReqSkipVisited
    \/ ReqFetch
    \/ ReqReturn

SpecTwo == InitTwo /\ [][NextTwo]_vars

\* the crawl of a request that runs alone: the links of a page
RECURSIVE AloneLinks(_, _, _, _)
AloneLinks(name, links, frontier, seen) ==
    IF links = <<>> THEN [frontier |-> frontier, seen |-> seen]
    ELSE IF Head(links) \in seen
    THEN AloneLinks(name, Tail(links), frontier, seen)
    ELSE LET file == rel_file_path(name, Head(links))
         IN  IF read_to_string(file).ok
             THEN AloneLinks(name, Tail(links),
                             Append(frontier,
                                    [html |-> read_to_string(file).contents,
                                     base_dir |-> module_parent(Head(links)),
                                     file |-> file]),
                             seen \cup {Head(links)})
             ELSE AloneLinks(name, Tail(links), frontier, seen)

\* the crawl of a request that runs alone: the list it returns
RECURSIVE AloneCrawl(_, _, _, _)
AloneCrawl(name, frontier, found, seen) ==
    IF frontier = <<>> THEN found
    ELSE LET page == process_page(Head(frontier).html, Head(frontier).base_dir)
             after == AloneLinks(name, page.modules_to_visit, Tail(frontier),
                                 seen)
         IN  AloneCrawl(name, after.frontier, found \o page.out, after.seen)

\* what a crate_symbol_list request returns when it runs alone and cargo
\* doc succeeds
AloneResult(name) ==
    IF ~read_to_string(index_path(name)).ok THEN Err("failed to read")
    ELSE Ok(AloneCrawl(name,
                       << [html |-> read_to_string(index_path(name)).contents,
                           base_dir |-> <<>>, file |-> index_path(name)] >>,
                       <<>>, {}))

\* C16: two crawls that run at the same time over an unchanged tree, for
\* the same or for different packages, do not touch each other's queue,
\* visited set or symbols: however their steps interleave, each returns
\* the list it returns when it runs alone.
C16_CrawlsIndependent ==
    \A r \in DOMAIN reqs :
        (Ended(reqs[r]) /\ reqs[r].log[1].ok) =>
            reqs[r].result = AloneResult(NameBeforeAt(reqs[r].crate_id))

\* the first crawl of demo has returned its list while the second crawl of
\* demo is at a link, with pages fetched and symbols collected
C16_Witness ==
    /\ DOMAIN reqs = {1, 2}
    /\ NameBeforeAt(reqs[1].crate_id) = NameBeforeAt(reqs[2].crate_id)
    /\ reqs[1].pc = "done"
    /\ reqs[1].result = AloneResult(CrateName)
    /\ Len(reqs[1].result.value) >= 3
    /\ reqs[2].pc = "links"
    /\ reqs[2].visited # {}
    /\ reqs[2].symbols # <<>>

----------------------------------------------------------------------------
(* One crawl whose reads of module pages are suspension points *)

\* the href of a link from the root page to the page of net::sub
NetSubLink == <<"net", Sep, "sub", Sep, "index.html">>

\* trees whose root page links one or two module pages
SeqTrees ==
    {Tree(r, n, <<>>, d, p) :
        r \in {<<NetLink>>, <<NetLink, NetSubLink>>, <<NetLink, SubLink>>},
        n \in {<<>>, <<SubLink>>, <<UpLink, SelfLink>>},
        d \in BOOLEAN,
        p \in {{RootFile, NetFile, SubFile}, {RootFile, NetFile}}}

InitSeq ==
    /\ fs \in SeqTrees
    /\ reqs = <<NewRequest("crate_symbol_list", CrateName, <<>>)>>
    /\ IdleList
    /\ IdleNorm
    /\ IdlePage

NextSeq ==
    \/ ReqCargoDoc
    \/ ReqReadIndex
    \/ ReqPopPage
    \/ ReqSkipVisited
    \/ ReqFetchStart
    \/ ReqFetchDone
    \/ ReqReturn

SpecSeq == InitSeq /\ [][NextSeq]_vars

\* the files that the module entries of the page in file g link to
LinkedFrom(g) ==
    {rel_file_path(CrateName, k) : k \in DeclaredModuleKeys(fs[g], BaseOf(g))}

\* the positions before i in the log of a request that hold a parse
ParsesBefore(req, i) == {j \in 1..(i - 1) : req.log[j].ev = "parse"}

\* C21 as stated: at most one fetch is outstanding, and no page is fetched
\* before every page read earlier has been parsed.
C21_SequentialAsStated ==
    \A r \in DOMAIN reqs :
        /\ Len(reqs[r].pending) <= 1
        /\ \A i \in 1..Len(reqs[r].log) : \A j \in 1..(i - 1) :
              (reqs[r].log[i].ev = "fetch"
               /\ reqs[r].log[j].ev = "read" /\ reqs[r].log[j].ok) =>
                  \E k \in (j + 1)..(i - 1) :
                      reqs[r].log[k] = Event("parse", reqs[r].log[j].path, TRUE)

\* C21: at most one fetch is outstanding at any time and the crawl does
\* nothing else until it has completed; a page is fetched only while the
\* links of an already parsed page are handled, namely of the page parsed
\* last, which links to it.  (The pages linked from one page are all
\* fetched before the first of them is parsed.)
C21_Sequential ==
    \A r \in DOMAIN reqs :
        /\ Len(reqs[r].pending) <= 1
        /\ reqs[r].pending # <<>> => reqs[r].pc = "await"
        /\ \A i \in 1..Len(reqs[r].log) :
              reqs[r].log[i].ev = "fetch" =>
                  /\ ParsesBefore(reqs[r], i) # {}
                  /\ LET last == CHOOSE j \in ParsesBefore(reqs[r], i) :
                                     \A k \in ParsesBefore(reqs[r], i) : k <= j
                     IN  reqs[r].log[i].path \in LinkedFrom(reqs[r].log[last].path)
                  /\ IF i = Len(reqs[r].log)
                     THEN reqs[r].pending = <<reqs[r].log[i].path>>
                     ELSE /\ reqs[r].log[i + 1].ev = "read"
                          /\ reqs[r].log[i + 1].path = reqs[r].log[i].path

\* a crawl that fetched the pages of net and of net::sub, one after the
\* other, before it parsed the page of net
C21_Witness ==
    \E r \in DOMAIN reqs : \E i \in 1..Len(reqs[r].log) :
        /\ reqs[r].pc = "done"
        /\ i + 4 <= Len(reqs[r].log)
        /\ reqs[r].log[i] = Event("fetch", NetFile, TRUE)
        /\ reqs[r].log[i + 1] = Event("read", NetFile, TRUE)
        /\ reqs[r].log[i + 2] = Event("fetch", SubFile, TRUE)
        /\ reqs[r].log[i + 3] = Event("read", SubFile, TRUE)
        /\ reqs[r].log[i + 4] = Event("parse", NetFile, TRUE)

----------------------------------------------------------------------------
(* Requests whose links and symbol paths point out of the package *)

\* a link with more parent-directory segments than the page is deep
ClimbLink == <<Dot, Dot, Sep, Dot, Dot, Sep, "net", Sep, "index.html">>

\* files that are not in target/doc/demo: the documentation of another
\* package and a file at the root of the file system
OtherIndex == index_path(OtherName)
RootedFile == RootedLink

OutsidePage == WithRegions(EmptyPage, <<Html1>>, <<Html2>>)

\* the tree of demo with the given module links on its root page and on
\* the page of net, the page of Listener, and the files outside
PathDisk(rootLinks, netLinks, outside) ==
    (RootFile :> WithRegions(Page(rootLinks, TRUE, RootOthers), <<Html1>>, <<>>))
    @@ (NetFile :> WithRegions(Page(netLinks, TRUE, NetOthers), <<>>, <<>>))
    @@ (ListenerFile :> WithRegions(EmptyPage, <<>>, <<Html1>>))
    @@ [f \in outside |-> OutsidePage]

PathDisks ==
    {PathDisk(r, n, o) :
        r \in {<<NetLink>>, <<NetLink, RootedLink, NetLink>>,
               <<ClimbLink, UpLink>>},
        n \in {<<>>, <<UpLink>>, <<ClimbLink, RootedLink>>},
        o \in {{}, {OtherIndex, RootedFile}}}

\* symbol paths with parent-directory segments, and one with a space after
\* its leading separator
ClimbingPaths ==
    {<<Dot, Dot, Sep, "other", Sep, "index.html">>,
     <<Dot, Dot, Sep, "other", Sep, "index">>,
     <<Sep, Dot, Dot, Sep, "other", Sep, "index.html">>,
     <<"net", Sep, Dot, Dot, Sep, "net", Sep, "struct.Listener">>,
     <<"missing", Sep, Dot, Dot, Sep, "index.html">>,
     <<Sep, " ", Sep, "net", Sep, "struct.Listener">>}

PathRequests ==
    {NewRequest("crate_symbol_list", CrateName, <<>>)}
    \cup {NewRequest("crate_symbol_get", CrateName, p) :
              p \in SymbolPaths \cup ClimbingPaths}

InitPath ==
    /\ fs \in PathDisks
    /\ reqs \in {<<req>> : req \in PathRequests}
    /\ IdleList
    /\ IdleNorm
    /\ IdlePage

NextPath ==
    \/ ReqCargoDoc
    \/ ReqReadIndex
    \/ ReqReadSymbol
    \/ ReqSymbolBody
    \/ ReqPopPage
    \/ ReqSkipVisited
    \/ ReqFetch
    \/ ReqReturn

SpecPath == InitPath /\ [][NextPath]_vars

\* C23: every file that crate_symbol_list reads during the crawl and that
\* crate_symbol_get reads lies in target/doc/<crate name>: no link on a
\* page (rooted, or with parent-directory segments) and no symbol_path
\* (with parent-directory segments) makes the request read a file outside.
C23_ReadsConfined ==
    \A r \in DOMAIN reqs : \A i \in 1..Len(reqs[r].log) :
        reqs[r].log[i].ev = "read" =>
            \/ os_walk(reqs[r].log[i].path) = NoEntry
            \/ IsPrefix(TreeOf(NameBeforeAt(reqs[r].crate_id)),
                        os_walk(reqs[r].log[i].path))

----------------------------------------------------------------------------
(* process_page on one page *)

\* most dt and dd elements in the modules list of the page
MaxItems == 4

\* a dt that contains no <a>
DtNoLink == [tag |-> "dt", link |-> FALSE, id |-> "", href |-> <<>>, md |-> <<>>]

\* the elements a dl may hold: a term with a link, a term without one, and
\* descriptions whose markdown is text within spaces, only spaces, or empty
Shapes == {"term", "bare", "text", "blank", "empty"}

SpacedText == <<" ", "d", " ", "c", " ">>

\* the dl of the modules section with elements of the given shapes; the
\* i-th element, when a term, links the module i
ModuleList(shapes) ==
    [i \in 1..Len(shapes) |->
        CASE shapes[i] = "term" ->
                 Dt(ToString(i), <<ToString(i), Sep, "index.html">>)
          [] shapes[i] = "bare" -> DtNoLink
          [] shapes[i] = "text" -> Dd(SpacedText)
          [] shapes[i] = "blank" -> Dd(<<" ", " ">>)
          [] OTHER -> Dd(<<>>)]

\* the dl of the structs section: absent, one described struct, two structs
\* without descriptions
StructLists ==
    {<<>>,
     <<Dt("S", <<"struct.S.html">>), Dd(DocText)>>,
     <<Dt("S", <<"struct.S.html">>), Dt("T", <<"struct.T.html">>)>>}

PagesToParse ==
    {[EmptyPage EXCEPT !["modules"] = ModuleList(shapes),
                       !["structs"] = structs] :
        shapes \in SeqsUpTo(Shapes, MaxItems), structs \in StructLists}

InitPage ==
    /\ pstage = "input"
    /\ phtml \in PagesToParse
    /\ pbase \in {<<>>, <<"net">>}
    /\ ppage = <<>>
    /\ IdleNorm
    /\ IdleCrawl
    /\ IdleReqs

\* process_page(html, base_dir)
ParsePage ==
    /\ pstage = "input"
    /\ ppage' = process_page(phtml, pbase)
    /\ pstage' = "parsed"
    /\ UNCHANGED <<phtml, pbase>>
    /\ UNCHANGED <<normvars, crawlvars, reqs>>

NextPage == ParsePage

SpecPage == InitPage /\ [][NextPage]_vars

----------------------------------------------------------------------------
(* Properties of process_page *)

\* the symbol_type of a section id
TypeOf(sec) ==
    sections[CHOOSE k \in 1..Len(sections) : sections[k][1] = sec][2]

\* the positions of the terms with a link in a dl
Terms(items) ==
    {i \in 1..Len(items) : items[i].tag = "dt" /\ items[i].link}

\* the records process_page made for the term i of the section sec
RecordsOf(sec, i) ==
    {k \in 1..Len(ppage.out) :
        /\ ppage.out[k].symbol_type = TypeOf(sec)
        /\ ppage.out[k].symbol_id = phtml[sec][i].id}

IsBlank(text) == \A i \in 1..Len(text) : text[i] = " "

\* the text without the spaces before its first and after its last
\* character that is not a space
Trimmed(text) ==
    LET solid == {i \in 1..Len(text) : text[i] # " "}
    IN  IF solid = {} THEN <<>>
        ELSE SubSeq(text, CHOOSE i \in solid : \A j \in solid : i <= j,
                          CHOOSE i \in solid : \A j \in solid : i >= j)

\* C12: the record of a term that is followed by a description has
\* description None when the converted text of the description is empty
\* after trimming, and the trimmed text otherwise; no record carries an
\* empty or whitespace-only description.
C12_DescriptionAttachment ==
    pstage = "parsed" =>
        /\ \A sec \in SectionIds : \A i \in Terms(phtml[sec]) :
              (i < Len(phtml[sec]) /\ phtml[sec][i + 1].tag = "dd") =>
                  \A k \in RecordsOf(sec, i) :
                      ppage.out[k].symbol_description =
                          IF IsBlank(phtml[sec][i + 1].md) THEN None
                          ELSE Some(Trimmed(phtml[sec][i + 1].md))
        /\ \A k \in 1..Len(ppage.out) :
              \/ ppage.out[k].symbol_description = None
              \/ ~IsBlank(ppage.out[k].symbol_description[1])

\* a page whose first module has a description of spaces only and whose
\* second has text within spaces
C12_Witness ==
    /\ pstage = "parsed"
    /\ Len(phtml["modules"]) = 4
    /\ phtml["modules"][2] = Dd(<<" ", " ">>)
    /\ phtml["modules"][4] = Dd(SpacedText)
    /\ Len(ppage.out) >= 2
    /\ ppage.out[1].symbol_description = None
    /\ ppage.out[2].symbol_description = Some(<<"d", " ", "c">>)

\* the number of terms with a link on the page
NumTerms ==
    LET count[k \in 0..Len(sections)] ==
            IF k = 0 THEN 0
            ELSE count[k - 1] + Cardinality(Terms(phtml[sections[k][1]]))
    IN  count[Len(sections)]

\* C18: every term with a link yields exactly one record, whether or not a
\* description follows it (a term directly followed by another term yields
\* a record without description, and the following term its own record);
\* a term without a link yields no record and takes no record away from
\* another entry.
C18_OneRecordPerTerm ==
    pstage = "parsed" =>
        /\ \A sec \in SectionIds : \A i \in Terms(phtml[sec]) :
              /\ Cardinality(RecordsOf(sec, i)) = 1
              /\ (i = Len(phtml[sec]) \/ phtml[sec][i + 1].tag # "dd") =>
                    \A k \in RecordsOf(sec, i) :
                        ppage.out[k].symbol_description = None
        /\ Len(ppage.out) = NumTerms

\* the resolved paths of the entries with a link of a section
PathsUnder(sec) ==
    {full_path_str(pbase, phtml[sec][i].href) : i \in Terms(phtml[sec])}

\* C20: only links under the modules section are followed: the path of an
\* entry of another section is never among the module links, and the path
\* of every entry under modules is.
C20_ModuleLinks ==
    pstage = "parsed" =>
        LET module_links ==
                {ppage.modules_to_visit[k] :
                    k \in 1..Len(ppage.modules_to_visit)}
        IN  /\ \A sec \in SectionIds \ {"modules"} :
                  module_links \cap PathsUnder(sec) = {}
            /\ PathsUnder("modules") \subseteq module_links

----------------------------------------------------------------------------
(* The file a symbol_path names *)

\* the symbol_path as the claim maps it: surrounding whitespace trimmed,
\* all leading separators removed, ".html" appended when it is not there
LeadingSeps(text) ==
    Cardinality({i \in 1..Len(text) : \A j \in 1..i : text[j] = Sep})

MappedPath(symbol_path) ==
    LET trimmed == Trimmed(symbol_path)
        rel == SubSeq(trimmed, LeadingSeps(trimmed) + 1, Len(trimmed))
    IN  IF chars(rel) # <<>> /\ Last(chars(rel)) = ".html" THEN rel
        ELSE rel \o <<".html">>

\* C24: crate_symbol_get reads the page whose key is the symbol_path
\* trimmed, without its leading separators and with ".html" appended when
\* missing; mapping a mapped path again changes nothing; and every path
\* that crate_symbol_list returns and that ends in ".html" is mapped to
\* itself, so that it addresses the page the crawl linked to.
C24_SymbolPathMapping ==
    \A r \in DOMAIN reqs :
        /\ (reqs[r].op = "crate_symbol_get" /\ Len(reqs[r].log) >= 2) =>
              /\ reqs[r].log[2].path =
                     rel_file_path(NameBeforeAt(reqs[r].crate_id),
                                   MappedPath(reqs[r].symbol_path))
              /\ symbol_rel(symbol_rel(reqs[r].symbol_path)) =
                     symbol_rel(reqs[r].symbol_path)
        /\ (reqs[r].op = "crate_symbol_list" /\ reqs[r].pc = "done") =>
              \A k \in 1..Len(reqs[r].result.value) :
                  ends_with_html(reqs[r].result.value[k].symbol_path) =>
                      symbol_rel(reqs[r].result.value[k].symbol_path) =
                          reqs[r].result.value[k].symbol_path

====
